---------------------------- MODULE Spec2Model ----------------------------
(***************************************************************************)
(* Lock-inference dataflow engine of cmrm (src/dataflow/pass.rs,           *)
(* GlobalPass): fact collection, mutex universe, per-procedure summaries   *)
(* in call-graph post order, the interprocedural work-list fixed point,    *)
(* and the datum-to-mutex classifier.                                      *)
(***************************************************************************)
EXTENDS Naturals, Integers, Sequences, FiniteSets, TLC

VARIABLES
    prog,                   \* the analysed crate (input, never changes)
    pc,                     \* position in check_crate_post
    self_mutexes,           \* GlobalPass.mutexes
    args_per_type,          \* GlobalPass.args_per_type
    call_graph,             \* GlobalPass.call_graph
    mutexes,                \* local `mutexes`: expression-to-id map
    po,                     \* post order of the component graph
    function_summary_map,   \* DefId -> FunctionSummary
    work_list,              \* VecDeque of the fixed point
    abs_states,             \* DefId -> BitSet
    descents,               \* number of strict shrinkings of abs_states so far
    todo,                   \* classifier buckets not visited yet
    emitted,                \* (path, m) of the bucket visited last, if it inserted
    mutex_map,
    array_mutex_map,
    struct_mutex_map,
    function_map

vars == <<prog, pc, self_mutexes, args_per_type, call_graph, mutexes, po,
          function_summary_map, work_list, abs_states, descents, todo, emitted,
          mutex_map, array_mutex_map, struct_mutex_map, function_map>>

-----------------------------------------------------------------------------
(* Generic helpers *)

Range(s) == {s[i] : i \in DOMAIN s}

RECURSIVE SetToSeqs(_)
SetToSeqs(S) ==
    IF S = {} THEN {<<>>}
    ELSE UNION {{<<x>> \o t : t \in SetToSeqs(S \ {x})} : x \in S}

RECURSIVE InterAll(_, _)
\* intersection of a non-empty finite family of sets, starting from top
InterAll(family, top) ==
    IF family = {} THEN top
    ELSE LET s == CHOOSE x \in family : TRUE
         IN  s \cap InterAll(family \ {s}, top)

EmptyMap == [k \in {} |-> {}]

\* faulty variant: the insertion drops the entries of the other keys
MapInsertAlone(map, k, v) == [x \in {k} |-> v]

\* HashMap / BTreeMap insert
MapInsert(map, k, v) == [x \in DOMAIN map \cup {k} |-> IF x = k THEN v ELSE map[x]]

-----------------------------------------------------------------------------
(* ExprPath: a base name and a list of projections *)

Field(f) == [kind |-> "Field", name |-> f]
Index(i) == [kind |-> "Index", name |-> i]

Var(b) == [base |-> b, projections |-> <<>>]
Proj(p, pr) == [base |-> p.base, projections |-> Append(p.projections, pr)]

is_variable(p) == p.projections = <<>>

is_struct(p) ==
    /\ p.projections # <<>>
    /\ p.projections[Len(p.projections)].kind = "Field"

\* Option<ExprPath> is a set with at most one element
None == {}
Some(x) == {x}
The(o) == CHOOSE x \in o : TRUE

IsPrefix(pre, p) ==
    /\ pre.base = p.base
    /\ Len(pre.projections) < Len(p.projections)
    /\ SubSeq(p.projections, 1, Len(pre.projections)) = pre.projections

\* the suffix of p after prefix pre; its base is the first remaining field
strip_prefix(p, pre) ==
    IF IsPrefix(pre, p) /\ p.projections[Len(pre.projections) + 1].kind = "Field"
    THEN Some([base |-> p.projections[Len(pre.projections) + 1].name,
               projections |-> SubSeq(p.projections, Len(pre.projections) + 2,
                                      Len(p.projections))])
    ELSE None

\* the old base becomes the first field under the new base
add_base(p, b) == [base |-> b, projections |-> <<Field(p.base)>> \o p.projections]

\* pop: the path without its last projection
pop(p) == [base |-> p.base,
           projections |-> SubSeq(p.projections, 1, Len(p.projections) - 1)]


-----------------------------------------------------------------------------
(* The analysed crate.                                                      *)
(*   prog.fns[f]   = [params |-> <<[name, typ]>>, blocks |-> <<block>>]     *)
(*   block         = [statements |-> <<set of [path, write]>>,              *)
(*                    terminator |-> [kind, func, args, targets]]           *)
(*   arg           = [expr, typ, path]   (path is an Option)                *)
(* Basic block 0 of the MIR body is blocks[1].                              *)

LOCK == "pthread_mutex_lock"
UNLOCK == "pthread_mutex_unlock"

Arg(e, t, pth) == [expr |-> e, typ |-> t, path |-> pth]

Call(f, as, tgt) == [kind |-> "Call", func |-> f, args |-> as, targets |-> {tgt}]
Goto(tgt) == [kind |-> "Goto", func |-> "", args |-> <<>>, targets |-> {tgt}]
SwitchInt(tgts) == [kind |-> "SwitchInt", func |-> "", args |-> <<>>, targets |-> tgts]
Return == [kind |-> "Return", func |-> "", args |-> <<>>, targets |-> {}]

Block(ss, t) == [statements |-> ss, terminator |-> t]

Fns == DOMAIN prog.fns
Body(f) == prog.fns[f].blocks
Blocks(f) == DOMAIN Body(f)

\* get_function_call: the blocks that end in a call terminator
CallBlocks(f) == {b \in Blocks(f) : Body(f)[b].terminator.kind = "Call"}

-----------------------------------------------------------------------------
(* Fact collector: check_item / check_expr over the whole crate *)

\* self.mutexes: first argument of every lock / unlock call, per function
CollectMutexes ==
    LET ms(f) == {The(Body(f)[b].terminator.args[1].path) :
                    b \in {c \in CallBlocks(f) :
                             Body(f)[c].terminator.func \in {LOCK, UNLOCK}}}
    IN  [f \in {g \in Fns : ms(g) # {}} |-> ms(f)]

AllArgs ==
    UNION {UNION {Range(Body(f)[b].terminator.args) : b \in CallBlocks(f)} : f \in Fns}

\* self.args_per_type: textual form of every call argument, by type
CollectArgsPerType ==
    [t \in {a.typ : a \in AllArgs} |-> {a.expr : a \in {b \in AllArgs : b.typ = t}}]

\* self.call_graph as built by check_item and check_expr (library callees included)
CollectCallGraph ==
    [f \in Fns |-> {Body(f)[b].terminator.func : b \in CallBlocks(f)}]

\* self.accesses[f]: (statement, path, write) of every recorded access
accesses(f) ==
    {[block |-> b, statement_index |-> i, path |-> a.path, write |-> a.write] :
        <<b, i, a>> \in
            {<<b, i, a>> \in
                UNION {UNION {{<<b, i, a>> : a \in Body(f)[b].statements[i]} :
                        i \in DOMAIN Body(f)[b].statements} : b \in Blocks(f)} :
                ~is_variable(a.path) \/ a.path.base \in prog.globs}}

\* self.path_types: the (pointee) type name of a path expression
RECURSIVE path_types(_, _)
path_types(f, p) ==
    IF is_variable(p) THEN prog.var_types[p.base]
    ELSE LET last == p.projections[Len(p.projections)]
             t == path_types(f, pop(p))
         IN  IF last.kind = "Field" THEN prog.field_types[<<t, last.name>>]
             ELSE prog.elem_types[t]

\* self.mutexes_per_struct: struct name -> fields whose type names the mutex type
mutexes_per_struct ==
    [t \in {k[1] : k \in {k \in DOMAIN prog.field_types :
                            prog.field_types[k] = "pthread_mutex_t"}} |->
        {k[2] : k \in {k \in DOMAIN prog.field_types :
                          k[1] = t /\ prog.field_types[k] = "pthread_mutex_t"}}]

-----------------------------------------------------------------------------
(* Mutex universe *)

\* faulty variant: parameter-relative paths are not substituted
SubstitutionsNone(f, m) == {}

\* m with its base replaced by each actual collected for the type of the
\* parameter it is relative to
Substitutions(f, m) ==
    LET params == prog.fns[f].params
        hits == {i \in DOMAIN params : params[i].name = m.base}
    IN  IF is_variable(m) \/ hits = {} THEN {}
        ELSE LET i == CHOOSE k \in hits : \A j \in hits : k <= j
                 t == params[i].typ
             IN  IF t \notin DOMAIN args_per_type THEN {}
                 ELSE {[base |-> a, projections |-> m.projections] :
                         a \in args_per_type[t]}

possible_mutexes ==
    UNION {self_mutexes[f] : f \in DOMAIN self_mutexes}
    \cup UNION {UNION {Substitutions(f, m) : m \in self_mutexes[f]} :
                  f \in DOMAIN self_mutexes}

\* every way the unordered set can be enumerated when identities are assigned
IdAssignments(U) ==
    {ids \in [U -> 0 .. Cardinality(U) - 1] :
        \A a, b \in U : a # b => ids[a] # ids[b]}

Ids == {mutexes[m] : m \in DOMAIN mutexes}
inv_mutexes(id) == CHOOSE m \in DOMAIN mutexes : mutexes[m] = id
iv2mv(is) == {inv_mutexes(i) : i \in is}

-----------------------------------------------------------------------------
(* Call graph: components, post order, thread reachability *)

RECURSIVE ReachFrom(_, _)
\* everything reachable in one or more calls from the functions in S
ReachFrom(g, S) ==
    LET next == S \cup UNION {g[f] \cap DOMAIN g : f \in S}
    IN  IF next = S THEN S ELSE ReachFrom(g, next)

transitive_closure(g) ==
    [f \in DOMAIN g |-> ReachFrom(g, g[f] \cap DOMAIN g)]

\* compute_sccs: the strongly connected component of each function
ComponentOf(g, f) ==
    {f} \cup {h \in transitive_closure(g)[f] : f \in transitive_closure(g)[h]}

Components(g) == {ComponentOf(g, f) : f \in DOMAIN g}

ComponentCalls(g, c, d) == c # d /\ \E f \in c : g[f] \cap d # {}

\* faulty variant: the components in any order
PostOrdersAny(g) == SetToSeqs(Components(g))

\* post_order: callee components come before the components that call them
PostOrders(g) ==
    {s \in SetToSeqs(Components(g)) :
        \A i, j \in DOMAIN s : i < j => ~ComponentCalls(g, s[i], s[j])}

thread_functions ==
    IF prog.thread_entries = {} THEN {}
    ELSE prog.thread_entries
         \cup UNION {transitive_closure(call_graph)[f] : f \in prog.thread_entries}

-----------------------------------------------------------------------------
(* Intraprocedural guard analyses (live guards backward, available guards  *)
(* forward), both with intersection as the meet.                           *)

Preds(f, b) == {c \in Blocks(f) : b \in Body(f)[c].terminator.targets}
Succs(f, b) == Body(f)[b].terminator.targets \cap Blocks(f)

\* a callee identity expressed in the caller's naming at a call with `args`
ToCaller(callee, args, id) ==
    LET m == inv_mutexes(id)
        params == prog.fns[callee].params
        hits == {i \in DOMAIN params :
                    /\ params[i].name = m.base
                    /\ i \in DOMAIN args
                    /\ args[i].path # None}
    IN  IF is_variable(m) \/ hits = {} THEN {id}
        ELSE LET i == CHOOSE k \in hits : \A j \in hits : k <= j
                 a == The(args[i].path)
                 cm == [base |-> a.base, projections |-> a.projections \o m.projections]
             IN  IF cm \in DOMAIN mutexes THEN {mutexes[cm]} ELSE {}

ToCallerSet(callee, args, is) == UNION {ToCaller(callee, args, i) : i \in is}

MutexArg(tm) == mutexes[The(tm.args[1].path)]

\* forward transfer of a terminator
AvailableTransfer(tm, in) ==
    IF tm.kind # "Call" THEN in
    ELSE IF tm.func = LOCK THEN in \cup {MutexArg(tm)}
    ELSE IF tm.func = UNLOCK THEN in \ {MutexArg(tm)}
    ELSE IF tm.func \in DOMAIN function_summary_map
    THEN LET s == function_summary_map[tm.func]
         IN  (in \ ToCallerSet(tm.func, tm.args, s.entry_mutex \ s.ret_mutex))
             \cup ToCallerSet(tm.func, tm.args, s.ret_mutex \ s.entry_mutex)
    ELSE in

\* backward transfer of a terminator
LiveTransfer(tm, out) ==
    IF tm.kind # "Call" THEN out
    ELSE IF tm.func = LOCK THEN out \ {MutexArg(tm)}
    ELSE IF tm.func = UNLOCK THEN out \cup {MutexArg(tm)}
    ELSE IF tm.func \in DOMAIN function_summary_map
    THEN LET s == function_summary_map[tm.func]
         IN  (out \ ToCallerSet(tm.func, tm.args, s.ret_mutex \ s.entry_mutex))
             \cup ToCallerSet(tm.func, tm.args, s.entry_mutex)
    ELSE out

RECURSIVE LiveFix(_, _)
LiveFix(f, lin) ==
    LET step == [b \in Blocks(f) |->
                    LiveTransfer(Body(f)[b].terminator,
                                 IF Succs(f, b) = {} THEN {}
                                 ELSE InterAll({lin[s] : s \in Succs(f, b)}, Ids))]
    IN  IF step = lin THEN lin ELSE LiveFix(f, step)

\* live_guards: the state at the start of each block
live_guards(f) == LiveFix(f, [b \in Blocks(f) |-> Ids])

RECURSIVE AvailableFix(_, _, _)
AvailableFix(f, entry, in) ==
    LET step == [b \in Blocks(f) |->
                    IF b = 1 THEN entry
                    ELSE InterAll({AvailableTransfer(Body(f)[p].terminator, in[p]) :
                                     p \in Preds(f, b)}, Ids)]
    IN  IF step = in THEN in ELSE AvailableFix(f, entry, step)

\* available_guards: the state before the statements and terminator of each block
available_guards(f, entry) ==
    AvailableFix(f, entry, [b \in Blocks(f) |-> IF b = 1 THEN entry ELSE Ids])

-----------------------------------------------------------------------------
(* Function summaries *)

\* user-defined functions
functions == DOMAIN call_graph

\* the alias translator of one call: caller identity -> callee identity;
\* None when the identity lookup of the translated path fails
alias_id(callee, args, id) ==
    LET m == inv_mutexes(id)
        params == prog.fns[callee].params
        hits == {i \in DOMAIN args :
                    /\ args[i].path # None
                    /\ strip_prefix(m, The(args[i].path)) # None}
    IN  IF is_variable(m) \/ hits = {} THEN Some(id)
        ELSE LET i == CHOOSE k \in hits : \A j \in hits : k <= j
                 tm == add_base(The(strip_prefix(m, The(args[i].path))),
                                params[i].name)
             IN  IF tm \in DOMAIN mutexes THEN Some(mutexes[tm]) ELSE None

UserCallBlocks(f) ==
    {b \in CallBlocks(f) : Body(f)[b].terminator.func \in functions}

\* the state the forward analysis reports before each block's terminator
Available(f) == available_guards(f, live_guards(f)[1])

\* the identity lookup fails at some call of f
AliasPanics(f) ==
    \E b \in UserCallBlocks(f) : \E id \in Available(f)[b] :
        alias_id(Body(f)[b].terminator.func, Body(f)[b].terminator.args, id) = None

entry_mutex_of(f) == live_guards(f)[1]

ret_mutex_of(f) ==
    AvailableTransfer(Body(f)[Len(Body(f))].terminator, Available(f)[Len(Body(f))])

\* faulty variant: the guards held at return are not added
node_mutex_without_ret(f) ==
    entry_mutex_of(f) \cup UNION {Available(f)[b] : b \in CallBlocks(f)}

node_mutex_of(f) ==
    entry_mutex_of(f) \cup ret_mutex_of(f)
    \cup UNION {Available(f)[b] : b \in CallBlocks(f)}

\* propagated guards of one call, in the callee's naming
PropagatedAt(f, b) ==
    UNION {alias_id(Body(f)[b].terminator.func, Body(f)[b].terminator.args, id) :
             id \in Available(f)[b]}

\* FunctionSummary.propagation: the records of one callee are intersected
propagation_of(f) ==
    [c \in {Body(f)[b].terminator.func : b \in UserCallBlocks(f)} |->
        InterAll({PropagatedAt(f, b) :
                    b \in {d \in UserCallBlocks(f) : Body(f)[d].terminator.func = c}},
                 Ids)]

\* FunctionSummary.access: path -> (guards held before every access, written?)
access_of(f) ==
    [pth \in {a.path : a \in accesses(f)} |->
        [v |-> InterAll({Available(f)[a.block] :
                           a \in {x \in accesses(f) : x.path = pth}}, Ids),
         w |-> \E a \in accesses(f) : a.path = pth /\ a.write]]

FunctionSummary(f) ==
    [entry_mutex |-> entry_mutex_of(f),
     node_mutex |-> node_mutex_of(f),
     ret_mutex |-> ret_mutex_of(f),
     propagation |-> propagation_of(f),
     access |-> access_of(f),
     propagation_mutex |-> {}]

-----------------------------------------------------------------------------
(* Classifier inputs *)

\* held set of one access record: reported guards plus propagation_mutex
HeldAt(f, pth) ==
    function_summary_map[f].access[pth].v
    \cup function_summary_map[f].propagation_mutex

AccessPaths(f) == DOMAIN function_summary_map[f].access

\* global_access[path]: (def_id, v, w) of every non-struct access
global_access(pth) ==
    {[def_id |-> f, v |-> HeldAt(f, pth),
      w |-> function_summary_map[f].access[pth].w] :
        f \in {g \in DOMAIN function_summary_map : pth \in AccessPaths(g)}}

GlobalBuckets ==
    {pth \in UNION {AccessPaths(f) : f \in DOMAIN function_summary_map} :
        ~is_struct(pth)}

RECURSIVE EnclosingStruct(_, _)
\* longest prefix whose type has a mutex field, with the field popped last
EnclosingStruct(f, pth) ==
    IF is_variable(pth) THEN None
    ELSE LET last == pth.projections[Len(pth.projections)]
             pre == pop(pth)
         IN  IF last.kind # "Field" THEN None
             ELSE IF path_types(f, pre) \in DOMAIN mutexes_per_struct
             THEN Some([typ |-> path_types(f, pre), path |-> pre, field |-> last.name])
             ELSE EnclosingStruct(f, pre)

\* struct_access_per_type[(typ, field)]: (def_id, path, v, w)
struct_access_per_type(key) ==
    {[def_id |-> f, path |-> The(EnclosingStruct(f, pth)).path,
      v |-> HeldAt(f, pth), w |-> function_summary_map[f].access[pth].w] :
        <<f, pth>> \in
            {<<f, pth>> \in
                UNION {{<<f, pth>> : pth \in AccessPaths(f)} :
                         f \in DOMAIN function_summary_map} :
                /\ is_struct(pth)
                /\ EnclosingStruct(f, pth) # None
                /\ The(EnclosingStruct(f, pth)).typ = key[1]
                /\ The(EnclosingStruct(f, pth)).field = key[2]}}

StructBuckets ==
    {<<The(EnclosingStruct(f, pth)).typ, The(EnclosingStruct(f, pth)).field>> :
        <<f, pth>> \in
            {<<f, pth>> \in
                UNION {{<<f, pth>> : pth \in AccessPaths(f)} :
                         f \in DOMAIN function_summary_map} :
                is_struct(pth) /\ EnclosingStruct(f, pth) # None}}

\* faulty variant: the accesses of every function are kept
RetainedAll(accs) == accs

\* keep only pthread_create reachable functions
Retained(accs) ==
    IF thread_functions # {} THEN {a \in accs : a.def_id \in thread_functions}
    ELSE accs

\* compute always-held mutexes of a global bucket
AlwaysHeld(accs) == InterAll({a.v : a \in accs}, Ids)

\* faulty variant: every always-held mutex is kept
ShapeFilterNone(pth, ms) == ms

\* find mutexes that conform to the path type
ShapeFilter(pth, ms) ==
    IF pth.projections # <<>> /\ pth.projections[1].kind = "Index"
    THEN {m \in ms : /\ m.projections # <<>>
                     /\ m.projections[1].kind = "Index"
                     /\ m.projections[1].name = pth.projections[1].name}
    ELSE {m \in ms : is_variable(m)}

\* Vec::pop on the candidates listed in the order of the identities `ids`
PopWith(ids, cands) ==
    IF cands = {} THEN None
    ELSE Some(CHOOSE m \in cands : \A o \in cands : ids[o] <= ids[m])

\* Vec::pop on the candidates listed in identity order: the largest identity
PopGuard(cands) == PopWith(mutexes, cands)

\* faulty variant: a bucket is never taken for read-only
all_reads_never(accs) == FALSE

\* skip read-only: no access of the bucket is a write
all_reads(accs) == \A a \in accs : ~a.w

\* the candidates of a global bucket that survive the shape filter
GlobalCandidates(pth) ==
    LET accs == Retained(global_access(pth))
    IN  IF accs = {} THEN {}
        ELSE IF all_reads(accs) THEN {}
        ELSE ShapeFilter(pth, iv2mv(AlwaysHeld(accs)))

\* the guard a global bucket inserts, if any
GlobalGuard(pth) == PopGuard(GlobalCandidates(pth))

\* held mutexes of one struct access with the enclosing prefix stripped
StrippedHeld(a) ==
    UNION {strip_prefix(inv_mutexes(i), a.path) : i \in a.v}

\* the surviving suffixes of a struct bucket
StructCandidates(key) ==
    LET accs == Retained(struct_access_per_type(key))
    IN  IF accs = {} THEN {}
        ELSE IF all_reads(accs) THEN {}
        ELSE LET all == UNION {StrippedHeld(a) : a \in accs}
             IN  {m \in all : \A a \in accs : m \in StrippedHeld(a)}

-----------------------------------------------------------------------------
(* check_crate_post, step by step *)

NoSummary == [f \in {} |-> {}]

\* check_item and check_expr have visited the whole crate
Collect ==
    /\ pc = "collect"
    /\ self_mutexes' = CollectMutexes
    /\ args_per_type' = CollectArgsPerType
    /\ call_graph' = CollectCallGraph
    /\ pc' = "prepare"
    /\ UNCHANGED <<prog, mutexes, po, function_summary_map, work_list, abs_states,
                   descents, todo, emitted, mutex_map, array_mutex_map,
                   struct_mutex_map, function_map>>

\* faulty variant: the library functions stay in the call graph
UnfilteredCallGraph == call_graph

\* remove library functions from the call graph
FilteredCallGraph == [f \in DOMAIN call_graph |-> call_graph[f] \cap DOMAIN call_graph]

\* lines 227-248: filter the call graph, order the components, assign identities
Prepare ==
    /\ pc = "prepare"
    /\ call_graph' = FilteredCallGraph
    /\ \E order \in PostOrders(FilteredCallGraph) : po' = order
    /\ \E ids \in IdAssignments(possible_mutexes) : mutexes' = ids
    /\ pc' = "summaries"
    /\ UNCHANGED <<prog, self_mutexes, args_per_type, function_summary_map, work_list,
                   abs_states, descents, todo, emitted, mutex_map, array_mutex_map,
                   struct_mutex_map, function_map>>

\* position of the next component of the post order traversal
NextComponent ==
    CHOOSE i \in DOMAIN po :
        /\ po[i] \cap DOMAIN function_summary_map = {}
        /\ \A j \in DOMAIN po : j < i => po[j] \cap DOMAIN function_summary_map # {}

\* faulty variant: only the size of the component is asserted
ComponentAssertsSizeOnly(funcs) == Cardinality(funcs) = 1

\* the two assertions at the head of the traversal loop
ComponentAsserts(funcs) ==
    /\ Cardinality(funcs) = 1
    /\ \A f \in funcs : f \notin call_graph[f]

\* lines 254-378: one iteration of the post order traversal
Summarize ==
    /\ pc = "summaries"
    /\ LET funcs == po[NextComponent]
           def_id == CHOOSE f \in funcs : TRUE
       IN  IF ~ComponentAsserts(funcs) \/ AliasPanics(def_id)
           THEN /\ pc' = "panic"
                /\ UNCHANGED function_summary_map
           ELSE /\ function_summary_map' =
                       MapInsert(function_summary_map, def_id, FunctionSummary(def_id))
                /\ pc' = IF NextComponent = Len(po) THEN "roots" ELSE "summaries"
    /\ UNCHANGED <<prog, self_mutexes, args_per_type, call_graph, mutexes, po,
                   work_list, abs_states, descents, todo, emitted, mutex_map,
                   array_mutex_map, struct_mutex_map, function_map>>

\* faulty variant: no procedure is taken for a root
iter_roots_none == {}

\* find root nodes
iter_roots == {f \in DOMAIN call_graph : \A g \in DOMAIN call_graph : f \notin call_graph[g]}

RECURSIVE Flatten(_)
Flatten(order) ==
    IF order = <<>> THEN <<>>
    ELSE (CHOOSE q \in SetToSeqs(Head(order)) : TRUE) \o Flatten(Tail(order))

Reverse(q) == [i \in DOMAIN q |-> q[Len(q) + 1 - i]]

\* lines 380-404: work list in reverse post order, initial abstract states
InitFixedPoint ==
    /\ pc = "roots"
    /\ work_list' = Flatten(Reverse(po))
    /\ abs_states' = [f \in DOMAIN function_summary_map |->
                         IF f \in iter_roots
                         THEN function_summary_map[f].entry_mutex
                         ELSE Ids]
    /\ pc' = "fixpoint"
    /\ UNCHANGED <<prog, self_mutexes, args_per_type, call_graph, mutexes, po,
                   function_summary_map, descents, todo, emitted, mutex_map,
                   array_mutex_map, struct_mutex_map, function_map>>

\* faulty variant: the state of succ is left as it is
MeetIdle(func, st, succ) == abs_states[succ]

\* faulty variant: the guards held at the call site are not propagated
MeetWithoutPropagation(func, st, succ) == abs_states[succ] \cap st

\* the state of succ after func (with state st) has been popped
Meet(func, st, succ) ==
    abs_states[succ] \cap (function_summary_map[func].propagation[succ] \cup st)

\* faulty variant: the front of the work list is read but not removed
PeekFront(wl) == wl

\* work_list.pop_front(): what stays in the work list
PopFront(wl) == Tail(wl)

\* lines 407-419: one iteration of the while loop
FixStep ==
    /\ pc = "fixpoint"
    /\ work_list # <<>>
    /\ LET func == Head(work_list)
           st == abs_states[func]
           succs == call_graph[func]
           changed == {c \in succs : Meet(func, st, c) # abs_states[c]}
           pushed == {c \in changed : c \notin Range(PopFront(work_list))}
       IN  /\ abs_states' = [f \in DOMAIN abs_states |->
                                IF f \in succs THEN Meet(func, st, f)
                                ELSE abs_states[f]]
           /\ \E q \in SetToSeqs(pushed) : work_list' = PopFront(work_list) \o q
           /\ descents' = descents + Cardinality(changed)
    /\ UNCHANGED <<prog, pc, self_mutexes, args_per_type, call_graph, mutexes, po,
                   function_summary_map, todo, emitted, mutex_map, array_mutex_map,
                   struct_mutex_map, function_map>>

\* faulty variant: the assertion is not made
UpdateAssertOmitted == TRUE

\* the assertion of the summary update
UpdateAssert == \A f \in DOMAIN function_summary_map :
                    function_summary_map[f].entry_mutex \subseteq abs_states[f]

\* lines 421-462: write propagation_mutex, classify the accesses
UpdateSummaries ==
    /\ pc = "fixpoint"
    /\ work_list = <<>>
    /\ IF ~UpdateAssert
       THEN /\ pc' = "panic"
            /\ UNCHANGED <<function_summary_map, todo>>
       ELSE /\ function_summary_map' =
                   [f \in DOMAIN function_summary_map |->
                       [function_summary_map[f] EXCEPT
                           !.propagation_mutex =
                               abs_states[f] \ function_summary_map[f].entry_mutex]]
            /\ todo' = [globals |-> GlobalBuckets, structs |-> StructBuckets]
            /\ pc' = "classify"
    /\ UNCHANGED <<prog, self_mutexes, args_per_type, call_graph, mutexes, po,
                   work_list, abs_states, descents, emitted, mutex_map,
                   array_mutex_map, struct_mutex_map, function_map>>

\* faulty variant: no path is taken for an array element
IsArrayPathNever(pth) == FALSE

\* the leading projection of the path is an index
IsArrayPath(pth) == pth.projections # <<>> /\ pth.projections[1].kind = "Index"

\* lines 465-508: one bucket of global_access
ClassifyGlobal ==
    /\ pc = "classify"
    /\ \E pth \in todo.globals :
        /\ todo' = [todo EXCEPT !.globals = @ \ {pth}]
        /\ LET g == GlobalGuard(pth)
           IN  IF g = None
               THEN /\ emitted' = None
                    /\ UNCHANGED <<mutex_map, array_mutex_map>>
               ELSE /\ emitted' = Some([kind |-> "global", path |-> pth, m |-> The(g)])
                    /\ IF IsArrayPath(pth)
                       THEN /\ array_mutex_map' =
                                   MapInsert(array_mutex_map, pth.base, The(g).base)
                            /\ UNCHANGED mutex_map
                       ELSE /\ mutex_map' = MapInsert(mutex_map, pth.base, The(g).base)
                            /\ UNCHANGED array_mutex_map
    /\ UNCHANGED <<prog, pc, self_mutexes, args_per_type, call_graph, mutexes, po,
                   function_summary_map, work_list, abs_states, descents,
                   struct_mutex_map, function_map>>

\* lines 533-567: one bucket of struct_access_per_type
ClassifyStruct ==
    /\ pc = "classify"
    /\ todo.globals = {}
    /\ \E key \in todo.structs :
        /\ todo' = [todo EXCEPT !.structs = @ \ {key}]
        /\ IF StructCandidates(key) = {}
           THEN /\ emitted' = None
                /\ UNCHANGED struct_mutex_map
           ELSE \E m \in StructCandidates(key) :
                /\ emitted' = Some([kind |-> "struct", path |-> key, m |-> m])
                /\ struct_mutex_map' =
                       MapInsert(struct_mutex_map, key[1],
                           MapInsert(IF key[1] \in DOMAIN struct_mutex_map
                                     THEN struct_mutex_map[key[1]] ELSE EmptyMap,
                                     key[2], m.base))
    /\ UNCHANGED <<prog, pc, self_mutexes, args_per_type, call_graph, mutexes, po,
                   function_summary_map, work_list, abs_states, descents,
                   mutex_map, array_mutex_map, function_map>>

\* faulty variant: the summary sets are reported as they are
ReportedSummaryBare(f) ==
    LET s == function_summary_map[f]
    IN  [entry_mutex |-> iv2mv(s.entry_mutex),
         node_mutex |-> iv2mv(s.node_mutex),
         ret_mutex |-> iv2mv(s.ret_mutex)]

\* lines 611-638: the reported summary of one function
ReportedSummary(f) ==
    LET s == function_summary_map[f]
    IN  [entry_mutex |-> iv2mv(s.entry_mutex) \cup iv2mv(s.propagation_mutex),
         node_mutex |-> iv2mv(s.node_mutex) \cup iv2mv(s.propagation_mutex),
         ret_mutex |-> iv2mv(s.ret_mutex) \cup iv2mv(s.propagation_mutex)]

\* lines 611-645: build function_map and store the AnalysisSummary
Finish ==
    /\ pc = "classify"
    /\ todo.globals = {}
    /\ todo.structs = {}
    /\ function_map' = [f \in DOMAIN function_summary_map |-> ReportedSummary(f)]
    /\ pc' = "done"
    /\ UNCHANGED <<prog, self_mutexes, args_per_type, call_graph, mutexes, po,
                   function_summary_map, work_list, abs_states, descents, todo,
                   emitted, mutex_map, array_mutex_map, struct_mutex_map>>

Next ==
    \/ Collect
    \/ Prepare
    \/ Summarize
    \/ InitFixedPoint
    \/ FixStep
    \/ UpdateSummaries
    \/ ClassifyGlobal
    \/ ClassifyStruct
    \/ Finish

-----------------------------------------------------------------------------
(* Analysed crates: the inputs the analysis is run on *)

MaxLen == 3

\* source-level operations of a straight-line procedure body
OpLock(pth, text) == [op |-> "Call", func |-> LOCK,
                      args |-> <<Arg(text, "pthread_mutex_t", Some(pth))>>, accs |-> {}]
OpUnlock(pth, text) == [op |-> "Call", func |-> UNLOCK,
                        args |-> <<Arg(text, "pthread_mutex_t", Some(pth))>>, accs |-> {}]
OpCall(f, as) == [op |-> "Call", func |-> f, args |-> as, accs |-> {}]
\* an assignment visits its left side as an expression and as the assigned place
OpWrite(pth) == [op |-> "Stmt", func |-> "", args |-> <<>>,
                 accs |-> {[path |-> pth, write |-> FALSE], [path |-> pth, write |-> TRUE]}]
OpRead(pth) == [op |-> "Stmt", func |-> "", args |-> <<>>,
                accs |-> {[path |-> pth, write |-> FALSE]}]

\* the MIR body of a straight-line procedure: one block per operation, then return
StraightLine(ops) ==
    [b \in 1 .. Len(ops) + 1 |->
        IF b = Len(ops) + 1 THEN Block(<<>>, Return)
        ELSE IF ops[b].op = "Call"
        THEN Block(<<>>, Call(ops[b].func, ops[b].args, b + 1))
        ELSE Block(<<ops[b].accs>>, Goto(b + 1))]

Fn(params, blocks) == [params |-> params, blocks |-> blocks]
Param(n, t) == [name |-> n, typ |-> t]

\* static items, variable types and struct layouts shared by all crates
Crate(fns, entries) ==
    [fns |-> fns,
     thread_entries |-> entries,
     globs |-> {"m", "n", "x", "xs", "ms", "ns", "s"},
     var_types |-> [v \in {"m", "n", "mtx", "x", "l", "xs", "ls", "ms", "ns", "s", "p",
                             "q"} |->
                      CASE v \in {"m", "n", "mtx"} -> "pthread_mutex_t"
                        [] v \in {"x", "l"} -> "int"
                        [] v \in {"xs", "ls"} -> "ints"
                        [] v \in {"ms", "ns"} -> "mutexes"
                        [] OTHER -> "S"],
     field_types |-> [k \in {<<"S", "mu">>, <<"S", "data">>, <<"S", "inner">>,
                              <<"I", "mu">>} |->
                        CASE k[2] = "mu" -> "pthread_mutex_t"
                          [] k[2] = "inner" -> "I"
                          [] OTHER -> "int"],
     elem_types |-> [t \in {"ints", "mutexes"} |->
                       IF t = "ints" THEN "int" ELSE "pthread_mutex_t"]]

gm == Var("m")
gn == Var("n")
gx == Var("x")

RECURSIVE SeqsUpTo(_, _)
\* all sequences over S of length at most n
SeqsUpTo(S, n) ==
    IF n = 0 THEN {<<>>}
    ELSE LET shorter == SeqsUpTo(S, n - 1)
         IN  shorter \cup {Append(q, x) : q \in shorter, x \in S}

\* bodies of a caller f over one global mutex, one global datum and calls to g
CallerOps == {OpLock(gm, "m"), OpUnlock(gm, "m"), OpWrite(gx), OpCall("g", <<>>)}

\* bodies of the leaf g
CalleeBodies ==
    {<<>>, <<OpWrite(gx)>>, <<OpRead(gx)>>, <<OpUnlock(gm, "m")>>,
     <<OpLock(gm, "m"), OpWrite(gx)>>, <<OpWrite(gx), OpUnlock(gm, "m")>>,
     <<OpLock(gn, "n"), OpWrite(gx), OpUnlock(gn, "n")>>}

\* every crate of two straight-line procedures f and g
EnumeratedCrates ==
    {Crate([h \in {"f", "g"} |->
              Fn(<<>>, StraightLine(IF h = "f" THEN fb ELSE gb))], te) :
        fb \in SeqsUpTo(CallerOps, MaxLen), gb \in CalleeBodies, te \in {{}, {"f"}}}

xs_i == Proj(Var("xs"), Index("i"))
ms_i == Proj(Var("ms"), Index("i"))
ms_j == Proj(Var("ms"), Index("j"))
ns_i == Proj(Var("ns"), Index("i"))
s_mu == Proj(Var("s"), Field("mu"))
s_data == Proj(Var("s"), Field("data"))
s_inner_mu == Proj(Proj(Var("s"), Field("inner")), Field("mu"))
p_mu == Proj(Var("p"), Field("mu"))
p_data == Proj(Var("p"), Field("data"))
q_mu == Proj(Var("q"), Field("mu"))
mtx == Var("mtx")

E == "(expr)"
ArgS(v) == Arg(v, "S", Some(Var(v)))

\* 1. single global, single lock
SingleGlobal ==
    Crate([h \in {"t"} |->
             Fn(<<>>, StraightLine(<<OpLock(gm, "m"), OpWrite(gx), OpUnlock(gm, "m")>>))],
          {"t"})

\* 2. read-only datum
ReadOnly ==
    Crate([h \in {"r"} |->
             Fn(<<>>, StraightLine(<<OpLock(gm, "m"), OpRead(gx), OpUnlock(gm, "m")>>))],
          {"r"})

\* 3. array protected by sibling array, same index expression
ArraySibling ==
    Crate([h \in {"t"} |->
             Fn(<<>>, StraightLine(<<OpLock(ms_i, E), OpWrite(xs_i), OpUnlock(ms_i, E)>>))],
          {"t"})

\* one element is written under its mutex, another element under none
ArrayOtherIndex ==
    Crate([h \in {"t"} |->
             Fn(<<>>, StraightLine(<<OpLock(ms_i, E), OpWrite(xs_i), OpUnlock(ms_i, E),
                                     OpWrite(Proj(Var("xs"), Index("j")))>>))],
          {"t"})

\* two arrays of mutexes held at the element access
ArrayTwoGuards ==
    Crate([h \in {"t"} |->
             Fn(<<>>, StraightLine(<<OpLock(ms_i, E), OpLock(ns_i, E), OpWrite(xs_i),
                                     OpUnlock(ns_i, E), OpUnlock(ms_i, E)>>))],
          {"t"})

\* the held mutexes do not have the shape of the datum
ArrayWrongShape ==
    Crate([h \in {"t"} |->
             Fn(<<>>, StraightLine(<<OpLock(gm, "m"), OpLock(ms_j, E), OpWrite(xs_i),
                                     OpWrite(gx), OpUnlock(ms_j, E), OpUnlock(gm, "m")>>))],
          {"t"})

\* a global mutex and another element's mutex are held too
ArrayMixed ==
    Crate([h \in {"t"} |->
             Fn(<<>>, StraightLine(<<OpLock(gm, "m"), OpLock(ms_j, E), OpLock(ms_i, E),
                                     OpWrite(xs_i), OpUnlock(ms_i, E), OpUnlock(ms_j, E),
                                     OpUnlock(gm, "m")>>))],
          {"t"})

\* 4. struct field protected by sibling mutex field
StructSibling ==
    Crate([h \in {"t"} |->
             Fn(<<>>, StraightLine(<<OpLock(s_mu, E), OpWrite(s_data), OpUnlock(s_mu, E)>>))],
          {"t"})

\* the field is written under the mutex of a nested struct
NestedMutex ==
    Crate([h \in {"t"} |->
             Fn(<<>>, StraightLine(<<OpLock(s_inner_mu, E), OpWrite(s_data),
                                     OpUnlock(s_inner_mu, E)>>))],
          {"t"})

\* the field is only read, under its sibling mutex
StructReadOnly ==
    Crate([h \in {"t"} |->
             Fn(<<>>, StraightLine(<<OpLock(s_mu, E), OpRead(s_data), OpUnlock(s_mu, E)>>))],
          {"t"})

\* 5. guard entered from caller
GuardFromCaller ==
    Crate([h \in {"caller", "callee"} |->
             IF h = "caller"
             THEN Fn(<<>>, StraightLine(<<OpLock(gm, "m"), OpCall("callee", <<>>)>>))
             ELSE Fn(<<>>, StraightLine(<<OpWrite(gx)>>))],
          {})

\* 6. alias via parameter; both procedures name the parameter p
AliasSameName ==
    Crate([h \in {"main", "outer", "inner"} |->
             CASE h = "main" ->
                    Fn(<<>>, StraightLine(<<OpCall("outer", <<ArgS("s")>>)>>))
               [] h = "outer" ->
                    Fn(<<Param("p", "S")>>,
                       StraightLine(<<OpLock(p_mu, E), OpCall("inner", <<ArgS("p")>>)>>))
               [] OTHER ->
                    Fn(<<Param("p", "S")>>, StraightLine(<<OpWrite(p_data)>>))],
          {})

\* the caller names its parameter q, the callee p; the callee never locks
AliasRenamed ==
    Crate([h \in {"main", "outer", "inner"} |->
             CASE h = "main" ->
                    Fn(<<>>, StraightLine(<<OpCall("outer", <<ArgS("s")>>)>>))
               [] h = "outer" ->
                    Fn(<<Param("q", "S")>>,
                       StraightLine(<<OpLock(q_mu, E), OpCall("inner", <<ArgS("q")>>)>>))
               [] OTHER ->
                    Fn(<<Param("p", "S")>>, StraightLine(<<OpWrite(p_data)>>))],
          {})

\* the caller names its parameter q, the callee p; the callee releases the mutex
AliasRenamedRelease ==
    Crate([h \in {"main", "outer", "inner"} |->
             CASE h = "main" ->
                    Fn(<<>>, StraightLine(<<OpCall("outer", <<ArgS("s")>>)>>))
               [] h = "outer" ->
                    Fn(<<Param("q", "S")>>,
                       StraightLine(<<OpLock(q_mu, E), OpCall("inner", <<ArgS("q")>>)>>))
               [] OTHER ->
                    Fn(<<Param("p", "S")>>,
                       StraightLine(<<OpWrite(p_data), OpUnlock(p_mu, E)>>))],
          {})

\* the mutex is the parameter itself
BareParameter ==
    Crate([h \in {"main", "lk"} |->
             IF h = "main"
             THEN Fn(<<>>, StraightLine(
                      <<OpCall("lk", <<Arg("m", "pthread_mutex_t", Some(gm))>>)>>))
             ELSE Fn(<<Param("mtx", "pthread_mutex_t")>>,
                     StraightLine(<<OpLock(mtx, "mtx"), OpWrite(gx), OpUnlock(mtx, "mtx")>>))],
          {})

\* a parameter-relative mutex is held at a call that does not pass the parameter
HeldNotPassed ==
    Crate([h \in {"caller", "callee"} |->
             IF h = "caller"
             THEN Fn(<<Param("q", "S")>>,
                     StraightLine(<<OpLock(q_mu, E), OpCall("callee", <<>>),
                                    OpUnlock(q_mu, E)>>))
             ELSE Fn(<<>>, StraightLine(<<OpWrite(gx)>>))],
          {})

\* two global mutexes held at every access
TwoGuards ==
    Crate([h \in {"t"} |->
             Fn(<<>>, StraightLine(<<OpLock(gm, "m"), OpLock(gn, "n"), OpWrite(gx),
                                     OpUnlock(gn, "n"), OpUnlock(gm, "m")>>))],
          {"t"})

\* the mutex is released between the entry of f and the call of g
ReleasedBeforeCall ==
    Crate([h \in {"t", "f", "g"} |->
             CASE h = "t" -> Fn(<<>>, StraightLine(<<OpLock(gm, "m"), OpCall("f", <<>>)>>))
               [] h = "f" -> Fn(<<>>, StraightLine(<<OpUnlock(gm, "m"), OpCall("g", <<>>)>>))
               [] OTHER -> Fn(<<>>, StraightLine(<<OpWrite(gx)>>))],
          {"t"})

\* a library call inside the critical section
LibraryCall ==
    Crate([h \in {"t"} |->
             Fn(<<>>, StraightLine(<<OpLock(gm, "m"), OpCall("printf", <<>>), OpWrite(gx),
                                     OpUnlock(gm, "m")>>))],
          {"t"})

\* the lock is taken on one branch only, then g releases it
BranchLock ==
    Crate([h \in {"f", "g"} |->
             IF h = "f"
             THEN Fn(<<>>, <<Block(<<>>, SwitchInt({2, 3})),
                             Block(<<>>, Call(LOCK, <<Arg("m", "pthread_mutex_t", Some(gm))>>, 3)),
                             Block(<<>>, Call("g", <<>>, 4)),
                             Block(<<>>, Return)>>)
             ELSE Fn(<<>>, StraightLine(<<OpWrite(gx), OpUnlock(gm, "m")>>))],
          {"f"})

\* the lock is taken on one branch, which writes x and joins the other branch
BranchLockNoCall ==
    Crate([h \in {"t"} |->
             Fn(<<>>, <<Block(<<>>, SwitchInt({2, 4})),
                        Block(<<>>, Call(LOCK, <<Arg("m", "pthread_mutex_t", Some(gm))>>, 3)),
                        Block(<<OpWrite(gx).accs>>, Goto(4)),
                        Block(<<>>, Return)>>)],
          {"t"})

\* the returning block is not the last one: a branch locks m and joins it
ReturnNotLast ==
    Crate([h \in {"t"} |->
             Fn(<<>>, <<Block(<<>>, SwitchInt({2, 3})),
                        Block(<<>>, Return),
                        Block(<<>>, Call(LOCK, <<Arg("m", "pthread_mutex_t", Some(gm))>>, 2))>>)],
          {"t"})

\* an element of the local array ls is written under the mutex of its index
LocalArray ==
    Crate([h \in {"t"} |->
             Fn(<<>>, StraightLine(<<OpLock(ms_i, E), OpWrite(Proj(Var("ls"), Index("i"))),
                                     OpUnlock(ms_i, E)>>))],
          {"t"})

\* leaf is called by top without m and by mid, which top calls with m locked
Diamond ==
    Crate([h \in {"top", "mid", "leaf"} |->
             CASE h = "top" ->
                    Fn(<<>>, StraightLine(<<OpLock(gm, "m"), OpCall("mid", <<>>),
                                            OpUnlock(gm, "m"), OpCall("leaf", <<>>)>>))
               [] h = "mid" -> Fn(<<>>, StraightLine(<<OpCall("leaf", <<>>)>>))
               [] OTHER -> Fn(<<>>, StraightLine(<<OpWrite(gx)>>))],
          {"top"})

\* a recursive procedure that also calls a leaf
RecursiveAboveLeaf ==
    Crate([h \in {"f", "leaf"} |->
             IF h = "f"
             THEN Fn(<<>>, StraightLine(<<OpLock(gm, "m"), OpCall("leaf", <<>>),
                                          OpCall("f", <<>>)>>))
             ELSE Fn(<<>>, StraightLine(<<OpWrite(gx)>>))],
          {})

\* mutual recursion and self recursion
MutualRecursion ==
    Crate([h \in {"f", "g"} |->
             IF h = "f" THEN Fn(<<>>, StraightLine(<<OpCall("g", <<>>)>>))
             ELSE Fn(<<>>, StraightLine(<<OpWrite(gx), OpCall("f", <<>>)>>))],
          {})

SelfRecursion ==
    Crate([h \in {"f"} |->
             Fn(<<>>, StraightLine(<<OpLock(gm, "m"), OpCall("f", <<>>)>>))],
          {})

\* operations of a thread entry that works on the arrays xs, ms and ns
ArrayOps ==
    {OpLock(ms_i, E), OpUnlock(ms_i, E), OpLock(ns_i, E), OpWrite(xs_i), OpRead(xs_i)}

\* every crate whose thread entry t is a straight line of array operations
ArrayCrates ==
    {Crate([h \in {"t"} |-> Fn(<<>>, StraightLine(ops))], {"t"}) :
        ops \in SeqsUpTo(ArrayOps, MaxLen)}

ScenarioCrates ==
    {SingleGlobal, ReadOnly, ArraySibling, ArrayOtherIndex, ArrayTwoGuards,
     ArrayWrongShape, ArrayMixed, StructSibling, NestedMutex, StructReadOnly, GuardFromCaller, AliasSameName, AliasRenamed, AliasRenamedRelease,
     BareParameter, HeldNotPassed, TwoGuards, ReleasedBeforeCall, LibraryCall,
     BranchLock, BranchLockNoCall, ReturnNotLast, LocalArray, Diamond,
     RecursiveAboveLeaf, MutualRecursion, SelfRecursion}

Init ==
    /\ prog \in EnumeratedCrates \cup ScenarioCrates \cup ArrayCrates
    /\ pc = "collect"
    /\ self_mutexes = NoSummary
    /\ args_per_type = NoSummary
    /\ call_graph = NoSummary
    /\ mutexes = NoSummary
    /\ po = <<>>
    /\ function_summary_map = NoSummary
    /\ work_list = <<>>
    /\ abs_states = NoSummary
    /\ descents = 0
    /\ todo = [globals |-> {}, structs |-> {}]
    /\ emitted = None
    /\ mutex_map = EmptyMap
    /\ array_mutex_map = EmptyMap
    /\ struct_mutex_map = EmptyMap
    /\ function_map = NoSummary

Spec == Init /\ [][Next]_vars

\* the while loop of the fixed point runs on one thread without interruption:
\* an iteration that can run does run
FairSpec == Init /\ [][Next]_vars /\ WF_vars(FixStep)

-----------------------------------------------------------------------------
(* Properties *)

ThreadReachable(f) == thread_functions = {} \/ f \in thread_functions

\* held set of one access: available guards before its statement, plus the
\* propagation_mutex of its procedure
HeldBefore(f, a) ==
    Available(f)[a.block] \cup function_summary_map[f].propagation_mutex

\* C1: for every entry of the three output maps (datum d -> guard g), every
\* write access to d in a thread-reachable procedure (any procedure when no
\* thread is spawned) has g in its held set: the variable g for an entry of
\* mutex_map, an element of the array g for an entry of array_mutex_map, the
\* field g of the enclosing struct for an entry of struct_mutex_map.
C1_GuardHeldAtEveryWrite ==
    pc = "done" =>
        \A f \in DOMAIN function_summary_map :
            ThreadReachable(f) =>
                \A a \in accesses(f) :
                    a.write =>
                        /\ (/\ ~is_struct(a.path)
                            /\ ~IsArrayPath(a.path)
                            /\ a.path.base \in DOMAIN mutex_map) =>
                               \E id \in HeldBefore(f, a) :
                                   inv_mutexes(id) = Var(mutex_map[a.path.base])
                        /\ (/\ ~is_struct(a.path)
                            /\ IsArrayPath(a.path)
                            /\ a.path.base \in DOMAIN array_mutex_map) =>
                               \E id \in HeldBefore(f, a) :
                                   /\ inv_mutexes(id).base = array_mutex_map[a.path.base]
                                   /\ IsArrayPath(inv_mutexes(id))
                        /\ (/\ is_struct(a.path)
                            /\ EnclosingStruct(f, a.path) # None
                            /\ The(EnclosingStruct(f, a.path)).typ
                                  \in DOMAIN struct_mutex_map
                            /\ The(EnclosingStruct(f, a.path)).field
                                  \in DOMAIN struct_mutex_map[
                                         The(EnclosingStruct(f, a.path)).typ]) =>
                               \E id \in HeldBefore(f, a) :
                                   LET es == The(EnclosingStruct(f, a.path))
                                       sfx == strip_prefix(inv_mutexes(id), es.path)
                                   IN  /\ sfx # None
                                       /\ The(sfx).base = struct_mutex_map[es.typ][es.field]

-----------------------------------------------------------------------------
(* Concrete executions of the analysed crate, for C2 *)

\* a path of a frame in terms of the thread entry's names
Resolve(pth, bind) ==
    IF pth.base \in DOMAIN bind
    THEN [base |-> bind[pth.base].base,
          projections |-> bind[pth.base].projections \o pth.projections]
    ELSE pth

\* parameters of the callee bound to the resolved actuals
Bind(callee, args, bind) ==
    LET params == prog.fns[callee].params
        bound == {i \in DOMAIN params : i \in DOMAIN args /\ args[i].path # None}
    IN  [n \in {params[i].name : i \in bound} |->
            Resolve(The(args[CHOOSE i \in bound : params[i].name = n].path), bind)]

RECURSIVE Exec(_, _, _, _)
\* every access reached from block b of f entered with the mutexes `held`
\* locked, and the sets of mutexes locked when f returns
Exec(f, b, bind, held) ==
    LET tm == Body(f)[b].terminator
        here == {[fn |-> f, block |-> a.block, path |-> a.path, write |-> a.write,
                  held |-> held, bind |-> bind] : a \in {x \in accesses(f) : x.block = b}}
        cont(h) == LET rs == {Exec(f, t, bind, h) : t \in Succs(f, b)}
                   IN  [events |-> UNION {r.events : r \in rs},
                        exits |-> UNION {r.exits : r \in rs}]
        join(ev, rs) == [events |-> ev \cup UNION {r.events : r \in rs},
                         exits |-> UNION {r.exits : r \in rs}]
    IN  IF tm.kind = "Return" THEN [events |-> here, exits |-> {held}]
        ELSE IF tm.kind = "Call" /\ tm.func = LOCK
        THEN join(here, {cont(held \cup {Resolve(The(tm.args[1].path), bind)})})
        ELSE IF tm.kind = "Call" /\ tm.func = UNLOCK
        THEN join(here, {cont(held \ {Resolve(The(tm.args[1].path), bind)})})
        ELSE IF tm.kind = "Call" /\ tm.func \in Fns
        THEN LET r == Exec(tm.func, 1, Bind(tm.func, tm.args, bind), held)
             IN  join(here \cup r.events, {cont(h) : h \in r.exits})
        ELSE join(here, {cont(held)})

NoBinding == [n \in {} |-> Var(n)]

\* procedures a thread starts in
EntryProcedures == prog.thread_entries

\* C2: a mutex is in the held set attributed to an access only if it is locked,
\* and not unlocked again, on every concrete execution path from an entry
\* procedure to that access.
C2_HeldSetIsSound ==
    pc \in {"classify", "done"} =>
        \A t \in EntryProcedures :
            \A ev \in Exec(t, 1, NoBinding, {}).events :
                \A id \in HeldBefore(ev.fn, ev) :
                    Resolve(inv_mutexes(id), ev.bind) \in ev.held

\* C3: entry_mutex and ret_mutex of every summary are subsets of node_mutex.
C3_EntryAndRetWithinNode ==
    \A f \in DOMAIN function_summary_map :
        /\ function_summary_map[f].entry_mutex \subseteq function_summary_map[f].node_mutex
        /\ function_summary_map[f].ret_mutex \subseteq function_summary_map[f].node_mutex

\* C3 witness: a summary whose entry and return sets differ and are not both empty
C3_Witness ==
    \E f, g \in DOMAIN function_summary_map :
        /\ function_summary_map[f].ret_mutex # {}
        /\ function_summary_map[f].entry_mutex = {}
        /\ function_summary_map[g].entry_mutex # {}
        /\ function_summary_map[g].ret_mutex = {}

\* C4: when the work list has emptied, abs_state(p) is a superset of
\* entry_mutex(p) for every procedure p.
C4_AbsStateCoversEntry ==
    (pc = "fixpoint" /\ work_list = <<>>) =>
        \A f \in DOMAIN function_summary_map :
            function_summary_map[f].entry_mutex \subseteq abs_states[f]

\* C5: once the fixed point has started the work list eventually is empty, and
\* the abstract states shrink at most |procedures| x |universe| times.
C5_FixedPointTerminates ==
    /\ [](descents <= Cardinality(Fns) * Cardinality(Ids))
    /\ (pc = "fixpoint") ~> (pc = "fixpoint" /\ work_list = <<>>)

\* C5 witness: the loop has ended after an abstract state shrank
C5_Witness == pc = "fixpoint" /\ work_list = <<>> /\ descents > 0

\* C6: the output maps do not depend on the order in which the mutex set was
\* enumerated, on the order of the buckets, or on the candidate popped: the maps
\* of the finished run have, for every bucket, the guard every other
\* enumeration would pop.
C6_OutputIsDeterministic ==
    pc = "done" =>
        /\ \A ids \in IdAssignments(DOMAIN mutexes) : \A pth \in GlobalBuckets :
              LET g == PopWith(ids, GlobalCandidates(pth))
              IN  g # None =>
                    IF IsArrayPath(pth) THEN array_mutex_map[pth.base] = The(g).base
                    ELSE mutex_map[pth.base] = The(g).base
        /\ \A key \in StructBuckets : \A m \in StructCandidates(key) :
              struct_mutex_map[key[1]][key[2]] = m.base

\* C7: the universe is closed under parameter substitution: a mutex whose base
\* is a parameter of p, with the base replaced by an actual supplied for that
\* parameter at a call of p, is in the universe too.
C7_UniverseClosedUnderSubstitution ==
    pc \notin {"collect", "prepare"} =>
        \A m \in DOMAIN mutexes : \A callee \in Fns :
            \A k \in DOMAIN prog.fns[callee].params :
                prog.fns[callee].params[k].name = m.base =>
                    \A f \in Fns : \A b \in CallBlocks(f) :
                        LET tm == Body(f)[b].terminator
                        IN  (tm.func = callee /\ k \in DOMAIN tm.args
                             /\ tm.args[k].path # None) =>
                                [base |-> The(tm.args[k].path).base,
                                 projections |-> The(tm.args[k].path).projections
                                                 \o m.projections] \in DOMAIN mutexes

\* the function the traversal analyses next
NextFunction == CHOOSE f \in po[NextComponent] : TRUE

\* C8: at every call of a user procedure, every non-variable mutex held before
\* the call that has an actual's path as a prefix translates to a path of the
\* universe, so the identity lookup of the alias translator succeeds.
C8_AliasLookupSucceeds ==
    (pc = "summaries" /\ ComponentAsserts(po[NextComponent])) =>
        \A b \in UserCallBlocks(NextFunction) : \A id \in Available(NextFunction)[b] :
            LET tm == Body(NextFunction)[b].terminator
                m == inv_mutexes(id)
            IN  \A i \in DOMAIN tm.args :
                    (/\ ~is_variable(m)
                     /\ tm.args[i].path # None
                     /\ strip_prefix(m, The(tm.args[i].path)) # None) =>
                        add_base(The(strip_prefix(m, The(tm.args[i].path))),
                                 prog.fns[tm.func].params[i].name) \in DOMAIN mutexes

ParamNames(f) == {prog.fns[f].params[i].name : i \in DOMAIN prog.fns[f].params}

\* C9: every identity of a propagation record (callee c, set S) is a global
\* mutex or a path whose base is a parameter of c.
C9_PropagationInCalleeNaming ==
    \A f \in DOMAIN function_summary_map :
        \A c \in DOMAIN function_summary_map[f].propagation :
            \A id \in function_summary_map[f].propagation[c] :
                \/ is_variable(inv_mutexes(id)) /\ inv_mutexes(id).base \in prog.globs
                \/ inv_mutexes(id).base \in ParamNames(c)

\* C10: a guard inserted in mutex_map is the base of a mutex path without
\* projections; a guard inserted in array_mutex_map for a datum path that
\* starts with Index(i) is the base of a mutex path that starts with Index(i).
C10_GuardHasShapeOfDatum ==
    \A e \in emitted :
        e.kind = "global" =>
            /\ e.m \in DOMAIN mutexes
            /\ IF IsArrayPath(e.path)
               THEN /\ array_mutex_map[e.path.base] = e.m.base
                    /\ e.m.projections # <<>>
                    /\ e.m.projections[1] = e.path.projections[1]
               ELSE /\ mutex_map[e.path.base] = e.m.base
                    /\ e.m.projections = <<>>

\* C10 witness: an array entry was inserted while mutexes of another shape were
\* held at every access as well
C10_Witness ==
    \E e \in emitted :
        /\ e.kind = "global"
        /\ IsArrayPath(e.path)
        /\ \E o \in iv2mv(AlwaysHeld(Retained(global_access(e.path)))) :
              o.projections = <<>> \/ o.projections[1] # e.path.projections[1]

-----------------------------------------------------------------------------
\* C11: every entry struct_mutex_map[T][f] = g has g among the fields recorded
\* as mutex-typed for T, also when the held mutex lies deeper than one field
\* below the enclosing struct prefix.
C11_StructGuardIsMutexField ==
    \A T \in DOMAIN struct_mutex_map : \A fld \in DOMAIN struct_mutex_map[T] :
        /\ T \in DOMAIN mutexes_per_struct
        /\ struct_mutex_map[T][fld] \in mutexes_per_struct[T]

\* the procedures whose accesses survive the thread filter
Surviving == {f \in DOMAIN function_summary_map : ThreadReachable(f)}

\* C12: a key of mutex_map, of array_mutex_map or of struct_mutex_map is a
\* datum with a write access among the accesses that survive the thread filter.
C12_ReadOnlyDatumHasNoEntry ==
    /\ \A k \in DOMAIN mutex_map :
          \E f \in Surviving : \E a \in accesses(f) :
              a.write /\ ~is_struct(a.path) /\ ~IsArrayPath(a.path) /\ a.path.base = k
    /\ \A k \in DOMAIN array_mutex_map :
          \E f \in Surviving : \E a \in accesses(f) :
              a.write /\ ~is_struct(a.path) /\ IsArrayPath(a.path) /\ a.path.base = k
    /\ \A T \in DOMAIN struct_mutex_map : \A fld \in DOMAIN struct_mutex_map[T] :
          \E f \in Surviving : \E a \in accesses(f) :
              /\ a.write
              /\ is_struct(a.path)
              /\ EnclosingStruct(f, a.path) # None
              /\ The(EnclosingStruct(f, a.path)).typ = T
              /\ The(EnclosingStruct(f, a.path)).field = fld

\* C12 witness: the run is finished, a global or a struct field is only read
\* in surviving procedures, under a mutex of its shape, and has no entry
C12_Witness ==
    /\ pc = "done"
    /\ \E f \in Surviving : \E a \in accesses(f) :
          /\ HeldBefore(f, a) # {}
          /\ \/ /\ ~is_struct(a.path)
                /\ ShapeFilter(a.path, iv2mv(HeldBefore(f, a))) # {}
                /\ a.path.base \notin DOMAIN mutex_map
             \/ /\ is_struct(a.path)
                /\ EnclosingStruct(f, a.path) # None
                /\ StructCandidates(<<The(EnclosingStruct(f, a.path)).typ,
                                      The(EnclosingStruct(f, a.path)).field>>) = {}
                /\ struct_mutex_map = EmptyMap
          /\ \A g \in Surviving : \A b \in accesses(g) : b.path = a.path => ~b.write

-----------------------------------------------------------------------------
\* the procedures the maps may depend on: the thread entries and what they
\* transitively call, or every procedure when no thread is spawned
Relevant ==
    IF prog.thread_entries = {} THEN DOMAIN function_summary_map
    ELSE ReachFrom(call_graph, prog.thread_entries)

RelevantPaths == UNION {{a.path : a \in accesses(f)} : f \in Relevant}

\* the guards of a global path, from the relevant accesses alone
RelevantGlobalGuards(pth) ==
    LET \* the accesses to the path in the relevant procedures
        ras == {[f |-> f, a |-> a] : <<f, a>> \in
                  {<<f, a>> \in
                      UNION {{<<f, a>> : a \in accesses(f)} : f \in Relevant} :
                      a.path = pth}}
    IN  IF \A r \in ras : ~r.a.write THEN {}
        ELSE ShapeFilter(pth, iv2mv(InterAll({HeldBefore(r.f, r.a) : r \in ras}, Ids)))

\* the accesses of a struct bucket in the relevant procedures
RelevantFieldAccesses(T, fld) ==
    {[f |-> f, a |-> a] : <<f, a>> \in
        {<<f, a>> \in UNION {{<<f, a>> : a \in accesses(f)} : f \in Relevant} :
            /\ is_struct(a.path)
            /\ EnclosingStruct(f, a.path) # None
            /\ The(EnclosingStruct(f, a.path)).typ = T
            /\ The(EnclosingStruct(f, a.path)).field = fld}}

\* the suffixes held at one struct field access
FieldHeld(r) ==
    UNION {strip_prefix(inv_mutexes(i), The(EnclosingStruct(r.f, r.a.path)).path) :
             i \in HeldBefore(r.f, r.a)}

\* the guards of a struct bucket, from the relevant accesses alone
RelevantFieldGuards(T, fld) ==
    LET ras == RelevantFieldAccesses(T, fld)
    IN  IF \A r \in ras : ~r.a.write THEN {}
        ELSE {m \in UNION {FieldHeld(r) : r \in ras} : \A r \in ras : m \in FieldHeld(r)}

RelevantFieldKeys ==
    {<<The(EnclosingStruct(f, a.path)).typ, The(EnclosingStruct(f, a.path)).field>> :
        <<f, a>> \in
            {<<f, a>> \in UNION {{<<f, a>> : a \in accesses(f)} : f \in Relevant} :
                is_struct(a.path) /\ EnclosingStruct(f, a.path) # None}}

\* C13: the three output maps are determined by the accesses of the thread
\* entries and of the procedures they transitively call (of all procedures when
\* no thread is spawned): every key and every guard of the finished run is the
\* one those accesses alone give, whatever the other procedures access.
C13_MapsDependOnThreadAccessesOnly ==
    pc = "done" =>
        /\ DOMAIN mutex_map =
              {pth.base : pth \in {q \in RelevantPaths :
                  ~is_struct(q) /\ ~IsArrayPath(q) /\ RelevantGlobalGuards(q) # {}}}
        /\ \A k \in DOMAIN mutex_map :
              \E pth \in RelevantPaths :
                  /\ ~is_struct(pth) /\ ~IsArrayPath(pth) /\ pth.base = k
                  /\ \E m \in RelevantGlobalGuards(pth) : mutex_map[k] = m.base
        /\ DOMAIN array_mutex_map =
              {pth.base : pth \in {q \in RelevantPaths :
                  ~is_struct(q) /\ IsArrayPath(q) /\ RelevantGlobalGuards(q) # {}}}
        /\ \A k \in DOMAIN array_mutex_map :
              \E pth \in RelevantPaths :
                  /\ ~is_struct(pth) /\ IsArrayPath(pth) /\ pth.base = k
                  /\ \E m \in RelevantGlobalGuards(pth) : array_mutex_map[k] = m.base
        /\ \A key \in RelevantFieldKeys :
              IF RelevantFieldGuards(key[1], key[2]) = {}
              THEN key[1] \in DOMAIN struct_mutex_map =>
                       key[2] \notin DOMAIN struct_mutex_map[key[1]]
              ELSE /\ key[1] \in DOMAIN struct_mutex_map
                   /\ key[2] \in DOMAIN struct_mutex_map[key[1]]
                   /\ \E m \in RelevantFieldGuards(key[1], key[2]) :
                          struct_mutex_map[key[1]][key[2]] = m.base
        /\ \A T \in DOMAIN struct_mutex_map : \A fld \in DOMAIN struct_mutex_map[T] :
              <<T, fld>> \in RelevantFieldKeys

\* C13 witness: a thread is spawned, a procedure no thread reaches writes a
\* datum holding nothing, and the datum is mapped to the guard the thread holds
C13_Witness ==
    /\ pc = "done"
    /\ prog.thread_entries # {}
    /\ \E f \in DOMAIN function_summary_map \ Relevant : \E a \in accesses(f) :
          /\ a.write
          /\ HeldBefore(f, a) = {}
          /\ a.path.base \in DOMAIN mutex_map

-----------------------------------------------------------------------------
\* the user procedures that lie on a cycle of the call graph restricted to
\* user procedures
OnCycle ==
    {f \in Fns : f \in ReachFrom(FilteredCallGraph, FilteredCallGraph[f])}

\* C14: when the call graph restricted to user procedures has a cycle, no
\* procedure on a cycle ever gets a summary, the run never gets past the
\* summary traversal and no AnalysisSummary (function_map) is produced.
C14_CycleAbortsBeforeSummary ==
    (pc # "collect" /\ OnCycle # {}) =>
        /\ OnCycle \cap DOMAIN function_summary_map = {}
        /\ pc \in {"prepare", "summaries", "panic"}
        /\ function_map = EmptyMap

\* C14 witness: the analysis has aborted on a recursive procedure after its
\* acyclic callee was summarised
C14_Witness ==
    /\ pc = "panic"
    /\ OnCycle # {}
    /\ DOMAIN function_summary_map # {}

-----------------------------------------------------------------------------
\* the calls of f to procedures that are neither user-defined nor the lock and
\* unlock primitives
LibraryCallBlocks(f) ==
    {b \in CallBlocks(f) : Body(f)[b].terminator.func \notin Fns \cup {LOCK, UNLOCK}}

\* C15: a call to a procedure that is not user-defined leaves no edge in the
\* filtered call graph and no record in the caller's propagation, the held set
\* after it is the held set before it, and every lookup of the fixed point
\* (abs_states and propagation of a callee) succeeds, so the call neither
\* aborts the analysis nor changes an abs_state.
C15_LibraryCallIsIgnored ==
    /\ pc \notin {"collect", "prepare"} =>
          \A f \in DOMAIN call_graph : call_graph[f] \subseteq Fns
    /\ \A f \in DOMAIN function_summary_map :
          /\ DOMAIN function_summary_map[f].propagation \subseteq Fns
          /\ \A b \in LibraryCallBlocks(f) : \A t \in Succs(f, b) :
                Preds(f, t) = {b} => Available(f)[t] = Available(f)[b]
    /\ pc = "fixpoint" =>
          \A func \in DOMAIN abs_states : \A succ \in call_graph[func] :
              /\ succ \in DOMAIN abs_states
              /\ succ \in DOMAIN function_summary_map[func].propagation

\* C15 witness: the run is finished, a library procedure was called with a
\* mutex held, and the datum written after the call is mapped to that mutex
C15_Witness ==
    /\ pc = "done"
    /\ \E f \in DOMAIN function_summary_map : \E b \in LibraryCallBlocks(f) :
          /\ Available(f)[b] # {}
          /\ \E a \in accesses(f) :
                /\ a.block > b
                /\ a.write
                /\ a.path.base \in DOMAIN mutex_map
                /\ Var(mutex_map[a.path.base]) \in iv2mv(Available(f)[b])

-----------------------------------------------------------------------------
\* C16: a global datum with a surviving access whose held set is empty, or with
\* no candidate guard left by the shape filter, has no entry in mutex_map or
\* array_mutex_map when the run is finished, and the classification of such a
\* datum never stops the run.
C16_UnguardedDatumIsOmitted ==
    LET \* the map a global access path is entered in
        MapOf(pth) == IF IsArrayPath(pth) THEN array_mutex_map ELSE mutex_map
        \* the surviving access paths of the datum of pth (same base, same map)
        SameDatum(pth) ==
            {q \in RelevantPaths :
                ~is_struct(q) /\ q.base = pth.base /\ IsArrayPath(q) = IsArrayPath(pth)}
    IN
    /\ pc = "done" =>
          /\ \A f \in Surviving : \A a \in accesses(f) :
                (~is_struct(a.path) /\ HeldBefore(f, a) = {}) =>
                    a.path.base \notin DOMAIN MapOf(a.path)
          /\ \A pth \in RelevantPaths :
                (/\ ~is_struct(pth)
                 /\ \A q \in SameDatum(pth) : RelevantGlobalGuards(q) = {}) =>
                    pth.base \notin DOMAIN MapOf(pth)
    /\ pc = "classify" => ENABLED (ClassifyGlobal \/ ClassifyStruct \/ Finish)

-----------------------------------------------------------------------------
\* C17: after the fixed point, propagation_mutex(p) and entry_mutex(p) are
\* disjoint and their union is the final abs_state(p), for every procedure p.
C17_PropagationMutexComplementsEntry ==
    pc \in {"classify", "done"} =>
        \A f \in DOMAIN function_summary_map :
            LET s == function_summary_map[f]
            IN  /\ s.propagation_mutex \cap s.entry_mutex = {}
                /\ s.propagation_mutex \cup s.entry_mutex = abs_states[f]

\* C17 witness: after the fixed point one procedure has inherited guards only
\* and another has entry guards
C17_Witness ==
    /\ pc = "classify"
    /\ \E f, g \in DOMAIN function_summary_map :
          /\ function_summary_map[f].propagation_mutex # {}
          /\ function_summary_map[g].entry_mutex # {}

\* C18: the entry_mutex, node_mutex and ret_mutex reported in function_map are,
\* as sets, the summary sets of the procedure united with its propagation_mutex.
C18_ReportedSetsIncludePropagation ==
    pc = "done" =>
        /\ DOMAIN function_map = DOMAIN function_summary_map
        /\ \A f \in DOMAIN function_map :
              LET s == function_summary_map[f]
              IN  /\ function_map[f].entry_mutex =
                        {inv_mutexes(i) : i \in s.entry_mutex \cup s.propagation_mutex}
                  /\ function_map[f].node_mutex =
                        {inv_mutexes(i) : i \in s.node_mutex \cup s.propagation_mutex}
                  /\ function_map[f].ret_mutex =
                        {inv_mutexes(i) : i \in s.ret_mutex \cup s.propagation_mutex}

\* C18 witness: a finished run reports a procedure whose propagation_mutex is
\* not part of its node_mutex
C18_Witness ==
    /\ pc = "done"
    /\ \E f \in DOMAIN function_map :
          ~(function_summary_map[f].propagation_mutex
                \subseteq function_summary_map[f].node_mutex)

-----------------------------------------------------------------------------
\* the crates of the scenario "guard entered from caller": the callee only
\* writes x; its only caller does not access x and calls it only where the
\* last lock or unlock of m before the call is a lock
GuardFromCallerCrates ==
    LET LockedAt(ops, k) ==
            \E i \in 1 .. k - 1 :
                /\ ops[i] = OpLock(gm, "m")
                /\ \A j \in i + 1 .. k - 1 : ops[j] # OpUnlock(gm, "m")
        CallsUnderLock(ops) ==
            /\ \E k \in DOMAIN ops : ops[k] = OpCall("g", <<>>)
            /\ \A k \in DOMAIN ops :
                  /\ ops[k] # OpWrite(gx)
                  /\ ops[k] = OpCall("g", <<>>) => LockedAt(ops, k)
    IN  {GuardFromCaller} \cup
        {Crate([h \in {"f", "g"} |->
                  Fn(<<>>, StraightLine(IF h = "f" THEN fb ELSE <<OpWrite(gx)>>))], te) :
            fb \in {ops \in SeqsUpTo(CallerOps, MaxLen) : CallsUnderLock(ops)},
            te \in {{}, {"f"}}}

\* C19: when the callee has no lock or unlock and writes global x, and its only
\* caller calls it with global mutex m locked and not released, the run
\* completes with callee.entry_mutex = {m} (as reported in function_map) and
\* mutex_map = {x -> m}.
C19_GuardEnteredFromCaller ==
    prog \in GuardFromCallerCrates =>
        /\ pc # "panic"
        /\ pc = "done" =>
              /\ \A c \in {"callee", "g"} \cap DOMAIN function_map :
                    function_map[c].entry_mutex = {gm}
              /\ {"callee", "g"} \cap DOMAIN function_map # {}
              /\ mutex_map = [d \in {"x"} |-> "m"]

\* C19 witness: the scenario crate itself has been analysed to the end
C19_Witness ==
    /\ prog = GuardFromCaller
    /\ pc = "done"
    /\ function_summary_map["callee"].propagation_mutex # {}

-----------------------------------------------------------------------------
\* C20: alias via parameter. When outer(p) locks p->mu and calls inner(p),
\* inner(p) writes p->data and a call site passes &s of struct type S, the run
\* completes, the universe contains s.mu, struct_mutex_map maps S.data to mu
\* and the entry_mutex reported for inner contains the parameter-relative p.mu.
C20_AliasViaParameter ==
    prog = AliasSameName =>
        /\ pc # "panic"
        /\ pc \notin {"collect", "prepare"} => s_mu \in DOMAIN mutexes
        /\ pc = "done" =>
              /\ "S" \in DOMAIN struct_mutex_map
              /\ "data" \in DOMAIN struct_mutex_map["S"]
              /\ struct_mutex_map["S"]["data"] = "mu"
              /\ p_mu \in function_map["inner"].entry_mutex

\* C20 witness: the scenario crate has been analysed to the end and the lock
\* taken in outer reached inner as p.mu
C20_Witness ==
    /\ prog = AliasSameName
    /\ pc = "done"
    /\ mutexes[p_mu] \in abs_states["inner"]

-----------------------------------------------------------------------------
\* the crates of the scenario "array protected by sibling array": every
\* access of the thread entry to xs[i] follows a lock of ms[i] that has not
\* been released, and one of them is a write; with `sole`, ns[i] is not locked
\* before every one of these accesses as well
SiblingCrates(sole) ==
    LET LockedBefore(ops, k, lk, ul) ==
            \E i \in 1 .. k - 1 :
                /\ ops[i] = lk
                /\ \A j \in i + 1 .. k - 1 : ops[j] # ul
        ElementAccesses(ops) ==
            {k \in DOMAIN ops : ops[k] \in {OpWrite(xs_i), OpRead(xs_i)}}
        GuardedBySibling(ops) ==
            /\ \E k \in DOMAIN ops : ops[k] = OpWrite(xs_i)
            /\ \A k \in ElementAccesses(ops) :
                  LockedBefore(ops, k, OpLock(ms_i, E), OpUnlock(ms_i, E))
        GuardedByOther(ops) ==
            \A k \in ElementAccesses(ops) :
                LockedBefore(ops, k, OpLock(ns_i, E), OpUnlock(ns_i, E))
    IN  {ArraySibling} \cup
        {Crate([h \in {"t"} |-> Fn(<<>>, StraightLine(ops))], {"t"}) :
            ops \in {o \in SeqsUpTo(ArrayOps, MaxLen) :
                        GuardedBySibling(o) /\ (sole => ~GuardedByOther(o))}}

-----------------------------------------------------------------------------
\* C22: summaries are built callees first. At the step that analyses a
\* procedure p, every user-defined procedure p calls already has its summary in
\* function_summary_map (every call graph the traversal accepts is acyclic).
C22_CalleesSummarizedFirst ==
    [][\A p \in DOMAIN function_summary_map' \ DOMAIN function_summary_map :
          call_graph[p] \subseteq DOMAIN function_summary_map]_vars

\* C22 witness: a procedure that calls a user-defined procedure has been
\* analysed while another one still waits
C22_Witness ==
    /\ pc = "summaries"
    /\ \E p \in DOMAIN function_summary_map : call_graph[p] # {}
    /\ \E q \in DOMAIN call_graph : q \notin DOMAIN function_summary_map

-----------------------------------------------------------------------------
\* C23: abs_state starts at entry_mutex for procedures without a caller and at
\* the full universe for all others; every later update of abs_state[c]
\* replaces it by abs_state[c] /\ (P(f->c) \/ abs_state[f]) for a call edge
\* f->c, so abs_state only shrinks, and c is in the work list after every
\* update that strictly shrank it.
C23_AbsStateShrinksByMeet ==
    [][/\ (pc = "roots" /\ pc' = "fixpoint") =>
             \A p \in DOMAIN abs_states' :
                 abs_states'[p] =
                     IF \A f \in DOMAIN call_graph : p \notin call_graph[f]
                     THEN function_summary_map[p].entry_mutex
                     ELSE {mutexes[m] : m \in DOMAIN mutexes}
       /\ pc = "fixpoint" =>
             \A c \in DOMAIN abs_states :
                 /\ abs_states'[c] \subseteq abs_states[c]
                 /\ abs_states'[c] # abs_states[c] =>
                       /\ \E f \in DOMAIN call_graph :
                             /\ c \in call_graph[f]
                             /\ abs_states'[c] =
                                   abs_states[c]
                                   \cap (function_summary_map[f].propagation[c]
                                         \cup abs_states[f])
                       /\ \E k \in DOMAIN work_list' : work_list'[k] = c]_vars

\* C23 witness: the loop is running, a called procedure has lost part of the
\* universe and a root with entry guards keeps them
C23_Witness ==
    /\ pc = "fixpoint"
    /\ \E c \in DOMAIN abs_states :
          /\ \E f \in DOMAIN call_graph : c \in call_graph[f]
          /\ abs_states[c] # {mutexes[m] : m \in DOMAIN mutexes}
          /\ \E k \in DOMAIN work_list : work_list[k] = c
    /\ \E r \in DOMAIN abs_states :
          /\ \A f \in DOMAIN call_graph : r \notin call_graph[f]
          /\ abs_states[r] # {}

-----------------------------------------------------------------------------
\* C24: once the summary of a procedure has been created, its entry, node,
\* ret, propagation and access fields never change, and its propagation_mutex
\* is written once, by the step that follows the emptying of the work list.
C24_SummaryFrozenAfterCreation ==
    [][/\ \A f \in DOMAIN function_summary_map :
             /\ f \in DOMAIN function_summary_map'
             /\ \A fld \in {"entry_mutex", "node_mutex", "ret_mutex", "propagation",
                             "access"} :
                   function_summary_map'[f][fld] = function_summary_map[f][fld]
             /\ function_summary_map'[f].propagation_mutex
                      # function_summary_map[f].propagation_mutex =>
                   /\ pc = "fixpoint"
                   /\ work_list = <<>>
                   /\ pc' = "classify"
       /\ pc \in {"classify", "done", "panic"} => pc' # "fixpoint"]_vars

\* C24 witness: propagation_mutex has been written for a summary created
\* before another one
C24_Witness ==
    /\ pc = "classify"
    /\ Cardinality(DOMAIN function_summary_map) > 1
    /\ \E f \in DOMAIN function_summary_map :
          function_summary_map[f].propagation_mutex # {}

-----------------------------------------------------------------------------
\* C25: node_mutex(p) contains every mutex the available-guards analysis
\* reports as held at some program point of p, also one that is locked on a
\* branch with no further call before the merge or the end of p.
C25_NodeMutexCoversEveryPoint ==
    \A f \in DOMAIN function_summary_map : \A b \in Blocks(f) :
        /\ Available(f)[b] \subseteq function_summary_map[f].node_mutex
        /\ AvailableTransfer(Body(f)[b].terminator, Available(f)[b])
              \subseteq function_summary_map[f].node_mutex

-----------------------------------------------------------------------------
\* C26: ret_mutex(p) is the available-guards set at the exit of the block
\* through which p returns, for every control-flow graph, also when that block
\* is not the highest-numbered one.
C26_RetMutexIsExitOfReturnBlock ==
    \A f \in DOMAIN function_summary_map : \A b \in Blocks(f) :
        Body(f)[b].terminator.kind = "Return" =>
            function_summary_map[f].ret_mutex =
                AvailableTransfer(Body(f)[b].terminator, Available(f)[b])

-----------------------------------------------------------------------------
\* C27: every key of mutex_map and of array_mutex_map is the name of a declared
\* static item; an access whose base is a local variable or a parameter never
\* produces an entry in either map.
C27_GlobalMapKeysAreStatics ==
    (DOMAIN mutex_map \cup DOMAIN array_mutex_map) \subseteq prog.globs

-----------------------------------------------------------------------------
\* C28: when the work list is empty the abstract states are stable: for every
\* call edge f -> c of the filtered call graph, abs_state[c] is a subset of
\* P(f->c) united with abs_state[f], in whatever order callees were visited
\* and procedures were enqueued.
C28_StableWhenWorkListEmpty ==
    (pc = "fixpoint" /\ work_list = <<>>) =>
        \A f \in DOMAIN call_graph : \A c \in call_graph[f] :
            abs_states[c] \subseteq
                function_summary_map[f].propagation[c] \cup abs_states[f]

\* C28 witness: the work list has emptied and some call edge lets through
\* less than the universe
C28_Witness ==
    /\ pc = "fixpoint"
    /\ work_list = <<>>
    /\ \E f \in DOMAIN call_graph : \E c \in call_graph[f] :
          /\ function_summary_map[f].propagation[c] \cup abs_states[f] # Ids
          /\ abs_states[c] # {}

-----------------------------------------------------------------------------
\* C29: a root procedure is never put back in the work list, its abs_state
\* stays at its initial entry_mutex, and its propagation_mutex is empty after
\* the fixed point.
C29_RootKeepsEntryState ==
    [][\A r \in DOMAIN abs_states' :
          (\A f \in DOMAIN call_graph : r \notin call_graph[f]) =>
              /\ abs_states'[r] = function_summary_map'[r].entry_mutex
              /\ function_summary_map'[r].propagation_mutex = {}
              /\ (pc = "fixpoint" /\ \A k \in DOMAIN work_list : work_list[k] # r) =>
                    \A k \in DOMAIN work_list' : work_list'[k] # r]_vars

\* C29 witness: the fixed point is over, a root with entry guards has left the
\* work list and a called procedure has inherited guards
C29_Witness ==
    /\ pc = "classify"
    /\ \E r \in DOMAIN abs_states :
          /\ \A f \in DOMAIN call_graph : r \notin call_graph[f]
          /\ abs_states[r] # {}
    /\ \E c \in DOMAIN abs_states :
          /\ \E f \in DOMAIN call_graph : c \in call_graph[f]
          /\ function_summary_map[c].propagation_mutex # {}

-----------------------------------------------------------------------------
(* The rewriter's use of function_map *)

\* guards the rewritten f takes as parameters: one per reported entry mutex
guard_params(f) == function_map[f].entry_mutex

\* guards the rewritten f declares with `let mut`: reported node mutexes that
\* are not entry mutexes
local_vars(f) == function_map[f].node_mutex \ function_map[f].entry_mutex

\* mutexes whose guard variable is assigned at a pthread_mutex_lock call of f
assigned_guards(f) ==
    {The(Body(f)[b].terminator.args[1].path) :
        b \in {c \in CallBlocks(f) : Body(f)[c].terminator.func = LOCK}}

\* C30: for every procedure p and every lock(m) call in p, m is in the
\* node_mutex reported for p, so the guard assigned at the call is declared in
\* the rewritten p as a guard parameter or as a `let mut` local.
C30_LockedGuardIsDeclared ==
    pc = "done" =>
        \A f \in DOMAIN function_map :
            /\ assigned_guards(f) \subseteq function_map[f].node_mutex
            /\ assigned_guards(f) \subseteq guard_params(f) \cup local_vars(f)

=============================================================================
